---- MODULE Spec2Model ----
(***************************************************************************)
(* Model of backupdataupdated.py: the skip policy (should_skip), the       *)
(* destination resolver (find_destination), the destination wait loop and  *)
(* the folder loop of main, and the incremental copy engine                *)
(* (copy_folder_incremental) in its delegated (robocopy) and fallback      *)
(* (os.walk + shutil.copy2) modes.                                         *)
(*                                                                         *)
(* Strings are sequences of one-character strings, so that str.lower(),    *)
(* the `in` substring test and str.endswith() are computed character by    *)
(* character.  File sizes are counted in whole megabytes (10^6 bytes),     *)
(* because 50000 * 50000 * 50000 bytes does not fit TLC's 32-bit           *)
(* integers; every comparison of the code is rescaled exactly.             *)
(***************************************************************************)
EXTENDS Integers, Sequences, FiniteSets, TLC

VARIABLES
    skipCall,     \* the argument of the should_skip call under test
    skipDone,     \* whether that call has returned
    skipResult,   \* its return value (FALSE until it has returned)
    pc,           \* where main is: start, wait, afterwait, copy, walk, done
    now,          \* datetime.now(), in seconds since the process started
    deadline,     \* main's deadline
    dest_root,    \* main's dest_root (None is the empty string)
    attempts,     \* calls of find_destination made so far
    probed,       \* what is_drive_available has returned, probe after probe,
                  \* in the latest call of find_destination
    exitCode,     \* the process exit code (main's return value, or 99 when
                  \* an exception leaves main), -1 while it runs
    src_folders,  \* main's src_folders, as indexes into USER_FOLDERS
    idx,          \* position of the loop of line 164 in src_folders
    walk,         \* what os.walk has still to yield for the current folder
    reach,        \* environment: what an existence probe of each root meets
    srcExists,    \* environment: which user folders exist
    tool,         \* environment: how invoking robocopy goes
    fault,        \* environment: the file or directory whose I/O fails, and how
    grain,        \* environment: the timestamp granularity of the destination
    probeTime,    \* environment: seconds one existence probe takes
    dst,          \* the destination tree: the mirrored file of each source file
    dstDirs,      \* the destination tree: directories that exist
    destMade,     \* whether os.makedirs(dest_root) of line 162 has run
    ran,          \* per user folder, how copy_folder_incremental dealt with it
    outcome,      \* per source file, the branch the fallback walk took
    writes,       \* completed shutil.copy2 calls of the current run
    call,         \* 1 in the first run of the copy engine, 2 in a repeated run
    snap,         \* dst as it was when the current run started
    snapDirs      \* dstDirs as it was when the current run started

skipVars == <<skipCall, skipDone, skipResult>>
envVars == <<reach, srcExists, tool, fault, grain, probeTime>>
mainVars == <<pc, now, deadline, dest_root, attempts, probed, exitCode,
              src_folders, idx, walk>>
treeVars == <<dst, dstDirs, destMade, ran, outcome, writes>>
runVars == <<call, snap, snapDirs>>
vars == <<skipVars, envVars, mainVars, treeVars, runVars>>

(***************************************************************************)
(* Character strings                                                       *)
(***************************************************************************)
UpperChars ==
    <<"A","B","C","D","E","F","G","H","I","J","K","L","M",
      "N","O","P","Q","R","S","T","U","V","W","X","Y","Z">>

LowerChars ==
    <<"a","b","c","d","e","f","g","h","i","j","k","l","m",
      "n","o","p","q","r","s","t","u","v","w","x","y","z">>

\* str.lower() on one character
LowerChar(c) ==
    IF \E i \in 1..Len(UpperChars) : UpperChars[i] = c
    THEN LowerChars[CHOOSE i \in 1..Len(UpperChars) : UpperChars[i] = c]
    ELSE c

\* str.lower()
Lower(s) == [i \in 1..Len(s) |-> LowerChar(s[i])]

\* sub in s
Contains(s, sub) ==
    \E i \in 0..(Len(s) - Len(sub)) : SubSeq(s, i + 1, i + Len(sub)) = sub

\* s.endswith(suf)
EndsWith(s, suf) ==
    /\ Len(s) >= Len(suf)
    /\ SubSeq(s, Len(s) - Len(suf) + 1, Len(s)) = suf

\* os.path.join(a, b) for a relative b (ntpath: a separator is inserted
\* unless a already ends with one or with the drive colon)
PathJoin(a, b) ==
    IF a = <<>> THEN b
    ELSE IF a[Len(a)] \in {"\\", "/", ":"} THEN a \o b
    ELSE a \o <<"\\">> \o b

(***************************************************************************)
(* Configuration (lines 10-23) and the literals of should_skip             *)
(***************************************************************************)
MAX_FILE_SIZE_MB == 50000

PST_EXTENSION == <<".","p","s","t">>

LNK_EXTENSION == <<".","l","n","k">>

OUTLOOK_FOLDERS ==
    << <<"D","o","c","u","m","e","n","t","s","\\","O","u","t","l","o","o","k">>,
       <<"D","o","c","u","m","e","n","t","s","\\","O","u","t","l","o","o","k",
         "F","i","l","e","s">> >>

\* the substrings of line 64
SKIP_SUBSTRINGS ==
    << <<"a","p","p","d","a","t","a">>,
       <<"p","r","o","g","r","a","m"," ","f","i","l","e","s">>,
       <<"w","i","n","d","o","w","s">>,
       <<"m","i","c","r","o","s","o","f","t">>,
       <<"t","e","m","p">> >>

\* The divisor of line 74, 50000 * 50000 bytes, in megabytes:
\* (50000 * 50000) / 10^6 = (50000 / 1000) * (50000 / 1000).
SizeDivisorMB == (50000 \div 1000) * (50000 \div 1000)

\* line 74-75: os.path.getsize(path) / (50000 * 50000) > MAX_FILE_SIZE_MB,
\* for a file of sizeMB megabytes: sizeMB * 10^6 / (2500 * 10^6) > MAX
\* iff sizeMB > 2500 * MAX (true division, no rounding at these magnitudes).
SizeOverLimit(sizeMB) == sizeMB > SizeDivisorMB * MAX_FILE_SIZE_MB

\* line 75 with the `not path.endswith(PST_EXTENSION)` conjunct dropped
ShouldSkip_NoPstException(path, isfile, sizeMB, sizeFails) ==
    LET lower == Lower(path) IN
    IF \E i \in 1..Len(SKIP_SUBSTRINGS) : Contains(lower, SKIP_SUBSTRINGS[i])
    THEN TRUE
    ELSE IF EndsWith(path, LNK_EXTENSION) THEN TRUE
    ELSE IF isfile /\ sizeFails THEN TRUE
    ELSE IF isfile /\ SizeOverLimit(sizeMB) THEN TRUE
    ELSE FALSE

\* should_skip(path) (lines 59-85).  isfile is os.path.isfile(path), sizeMB
\* the size os.path.getsize reports, sizeFails whether getsize raises.
ShouldSkip(path, isfile, sizeMB, sizeFails) ==
    LET lower == Lower(path) IN
    IF \E i \in 1..Len(SKIP_SUBSTRINGS) : Contains(lower, SKIP_SUBSTRINGS[i])
    THEN TRUE                                                   \* 64-65
    ELSE IF EndsWith(path, LNK_EXTENSION) THEN TRUE             \* 68-69
    ELSE IF isfile /\ sizeFails THEN TRUE                       \* 72-74, 77-78
    ELSE IF isfile /\ SizeOverLimit(sizeMB) /\ ~EndsWith(path, PST_EXTENSION)
    THEN TRUE                                                   \* 75-76
    ELSE IF /\ \E i \in 1..Len(OUTLOOK_FOLDERS) :
                   Contains(Lower(path), Lower(OUTLOOK_FOLDERS[i]))
            /\ EndsWith(path, PST_EXTENSION)
    THEN FALSE                                                  \* 81-83
    ELSE FALSE                                                  \* 85

(***************************************************************************)
(* Inputs of should_skip                                                   *)
(***************************************************************************)
HomeDirs ==
    { <<"C",":","\\","U","s","e","r","s","\\","b","o","b">>,
      <<"C",":","\\","U","s","e","r","s","\\","T","e","m","p","1">> }

FolderNames ==
    { OUTLOOK_FOLDERS[1], OUTLOOK_FOLDERS[2],
      <<"d","o","c","u","m","e","n","t","s","\\","o","u","t","l","o","o","k">>,
      <<"D","o","c","u","m","e","n","t","s">>,
      <<"D","e","s","k","t","o","p">> }

FileStems ==
    { <<"m","a","i","l">>, <<"a","t","t","e","m","p","t">> }

FileExtensions ==
    { PST_EXTENSION, <<".","P","S","T">>, LNK_EXTENSION,
      <<".","z","i","p">>, <<".","L","N","K">> }

\* sizes in megabytes around the documented limit (50000 MB) and around the
\* limit the arithmetic of line 74 gives (125000000 MB)
FileSizesMB ==
    { 1, MAX_FILE_SIZE_MB, MAX_FILE_SIZE_MB + 1, 60000,
      SizeDivisorMB * MAX_FILE_SIZE_MB, SizeDivisorMB * MAX_FILE_SIZE_MB + 1 }

SkipPaths ==
    { PathJoin(PathJoin(h, d), s \o e) :
        h \in HomeDirs, d \in FolderNames, s \in FileStems, e \in FileExtensions }

SkipInputs ==
    [path : SkipPaths, isfile : BOOLEAN, sizeMB : FileSizesMB, sizeFails : BOOLEAN]

(***************************************************************************)
(* Configuration of the orchestrator and the environment inputs            *)
(***************************************************************************)
\* r"Z:\\" is the four characters Z : \ \
MAPPED_ROOT == <<"Z",":","\\","\\">>

UNC_ROOT ==
    <<"\\","\\","s","e","r","v","e","r","\\","U","n","i","t","y"," ",
      "E","x","p","l","o","r","a","t","i","o","n","\\","I","T"," ",
      "D","e","p","a","r","t","m","e","n","t">>

BACKUP_FOLDER_NAME == <<"B","A","C","K","U","P">>

USER_FOLDERS ==
    << <<"D","e","s","k","t","o","p">>,
       <<"D","o","c","u","m","e","n","t","s">> >>

RETRY_INTERVAL_SECONDS == 60

DRIVE_RETRY_MINUTES == 15

\* getpass.getuser() (line 138)
Username == <<"b","o","b">>

\* os.getenv("USERPROFILE") (line 139)
UserProfile == <<"C",":","\\","U","s","e","r","s","\\","b","o","b">>

\* Python's None, which `if dest_root` treats like the empty string
None == <<>>

(***************************************************************************)
(* Destination resolver (lines 26-47)                                      *)
(***************************************************************************)
ProbeOutcomes == {"yes", "no", "error"}

\* the three paths find_destination probes
UncUser == PathJoin(UNC_ROOT, Username)

MappedUser == PathJoin(MAPPED_ROOT, Username)

ProbePaths == {UncUser, MappedUser, MAPPED_ROOT}

\* is_drive_available(path): os.path.exists, an exception counting as False
IsDriveAvailable(path, env) == env[path] = "yes"

\* the probes with the mapped-drive candidates tried before the UNC one
ProbeSequence_MappedFirst(username) ==
    LET unc_user == PathJoin(UNC_ROOT, username)
        mapped_user == PathJoin(MAPPED_ROOT, username)
    IN  << [path |-> mapped_user,
            result |-> PathJoin(mapped_user, BACKUP_FOLDER_NAME)],
           [path |-> MAPPED_ROOT,
            result |-> PathJoin(MAPPED_ROOT, BACKUP_FOLDER_NAME)] >>
        \o (IF UNC_ROOT # <<>>
            THEN << [path |-> unc_user,
                     result |-> PathJoin(unc_user, BACKUP_FOLDER_NAME)] >>
            ELSE << >>)

\* the probes find_destination(username) makes, in the order it makes them,
\* each with the path it returns when the probe finds its path available
ProbeSequence(username) ==
    LET unc_user == PathJoin(UNC_ROOT, username)
        mapped_user == PathJoin(MAPPED_ROOT, username)
    IN  (IF UNC_ROOT # <<>>                                           \* 35-38
         THEN << [path |-> unc_user,
                  result |-> PathJoin(unc_user, BACKUP_FOLDER_NAME)] >>
         ELSE << >>)
        \o << [path |-> mapped_user,                                  \* 40-42
               result |-> PathJoin(mapped_user, BACKUP_FOLDER_NAME)],
              [path |-> MAPPED_ROOT,                                  \* 44-45
               result |-> PathJoin(MAPPED_ROOT, BACKUP_FOLDER_NAME)] >>

\* find_destination(username) when nothing changes while it runs: the result
\* of the first probe that finds its path available, else None (line 47)
FindDestination(username, env) ==
    LET seq == ProbeSequence(username)
        hits == {i \in 1..Len(seq) : IsDriveAvailable(seq[i].path, env)}
    IN  IF hits = {} THEN None
        ELSE seq[CHOOSE i \in hits : \A j \in hits : i <= j].result

(***************************************************************************)
(* The source tree under the user profile                                  *)
(***************************************************************************)
\* Directories in the order os.walk yields them (top-down); rel is
\* os.path.relpath(root, src), the empty string standing for ".".
Dirs ==
    << [folder |-> 1, rel |-> <<>>],
       [folder |-> 2, rel |-> <<>>],
       [folder |-> 2, rel |-> <<"O","u","t","l","o","o","k">>] >>

\* Regular files, in the order os.walk lists them.  The .pst file is larger
\* than every size limit.  Modification times count half seconds: 2 is a
\* whole second, 3 is not.
Files ==
    << [dir |-> 1, name |-> <<"a","p","p",".","l","n","k">>,
        sizeMB |-> 1, mtime |-> 2],
       [dir |-> 2, name |-> <<"n","o","t","e","s",".","t","x","t">>,
        sizeMB |-> 1, mtime |-> 3],
       [dir |-> 2, name |-> <<"p","l","a","n",".","t","x","t">>,
        sizeMB |-> 1, mtime |-> 2],
       [dir |-> 3, name |-> <<"m","a","i","l",".","p","s","t">>,
        sizeMB |-> SizeDivisorMB * MAX_FILE_SIZE_MB + 1, mtime |-> 3] >>

DirIds == 1..Len(Dirs)

FileIds == 1..Len(Files)

FolderIds == 1..Len(USER_FOLDERS)

FolderOf(f) == Dirs[Files[f].dir].folder

\* os.path.join(userprofile, name) (line 142)
SrcFolderPath(k) == PathJoin(UserProfile, USER_FOLDERS[k])

\* root as os.walk yields it
SrcDirPath(d) ==
    IF Dirs[d].rel = <<>> THEN SrcFolderPath(Dirs[d].folder)
    ELSE PathJoin(SrcFolderPath(Dirs[d].folder), Dirs[d].rel)

\* src_f (line 121)
SrcFilePath(f) == PathJoin(SrcDirPath(Files[f].dir), Files[f].name)

\* the directory of line 95 (target) for folder k
TargetDir(k) == CHOOSE d \in DirIds : Dirs[d].folder = k /\ Dirs[d].rel = <<>>

\* whether directory a is directory d or one of its ancestors in the tree
IsAncestorOrSelf(a, d) ==
    /\ Dirs[a].folder = Dirs[d].folder
    /\ Len(Dirs[a].rel) <= Len(Dirs[d].rel)
    /\ SubSeq(Dirs[d].rel, 1, Len(Dirs[a].rel)) = Dirs[a].rel

RECURSIVE WalkFrom(_, _)
\* os.walk(src), top-down: each directory, then its regular files
WalkFrom(k, d) ==
    IF d > Len(Dirs) THEN <<>>
    ELSE IF Dirs[d].folder # k THEN WalkFrom(k, d + 1)
    ELSE <<[kind |-> "dir", id |-> d]>>
         \o [i \in 1..Cardinality({f \in FileIds : Files[f].dir = d}) |->
                [kind |-> "file",
                 id |-> CHOOSE f \in FileIds :
                          /\ Files[f].dir = d
                          /\ Cardinality({g \in FileIds :
                                 Files[g].dir = d /\ g < f}) = i - 1]]
         \o WalkFrom(k, d + 1)

WalkTable == [k \in FolderIds |-> WalkFrom(k, 1)]

WalkOrder(k) == WalkTable[k]

(***************************************************************************)
(* Destination files                                                       *)
(***************************************************************************)
Absent == [present |-> FALSE, mtime |-> 0, data |-> "none"]

\* largest modification time a file found at the destination may carry
\* (source files carry 2 or 3, so older, equal and newer all occur)
MaxMtime == 3

\* Timestamp granularities of the destination filesystem, in half seconds:
\* 1 stores every source mtime exactly, 2 stores whole seconds only.
Grains == {1, 2}

\* the modification time the destination stores when it is set to m
StoredMtime(m, g) == (m \div g) * g

\* what a completed shutil.copy2(src_f, dst_f) leaves at dst_f: the source's
\* bytes and, through copystat, the source's modification time as the
\* destination filesystem stores it
Copy2(f, g) ==
    [present |-> TRUE, mtime |-> StoredMtime(Files[f].mtime, g), data |-> "source"]

\* line 130 with >= for >
SrcIsNewer_OrEqual(srcMtime, dstMtime) == srcMtime >= dstMtime

\* os.path.getmtime(src_f) > os.path.getmtime(dst_f) (line 130)
SrcIsNewer(srcMtime, dstMtime) == srcMtime > dstMtime

(***************************************************************************)
(* Per-file faults                                                         *)
(***************************************************************************)
\* "size": os.path.getsize raises; "vanished": the file is gone when it is
\* visited (isfile is False, getmtime and copy2 raise); "copy": copy2 raises
\* before it has touched dst_f; "partial": copy2 raises after it has
\* truncated or partly written dst_f
FaultKinds == {"size", "vanished", "copy", "partial"}

NoFault == [id |-> 0, kind |-> "none"]

FileFaults == [id : FileIds, kind : FaultKinds]

\* os.makedirs raises for a directory that does not exist yet: id 0 is
\* dest_root (line 162), the others are targets (lines 95, 118)
MkdirFaults == [id : {0} \cup DirIds, kind : {"mkdir"}]

Faults == {NoFault} \cup FileFaults \cup MkdirFaults

FaultOn(f, flt) == IF flt.kind \in FaultKinds /\ flt.id = f THEN flt.kind ELSE "none"

\* whether os.makedirs(<directory d>, exist_ok=True) raises
MkdirRaises(d, flt, exists) == flt.kind = "mkdir" /\ flt.id = d /\ ~exists

\* the time of the run as a file written now carries it: later than every
\* modification time among the files
WrittenNow(g) == StoredMtime(MaxMtime + 1, g)

\* what a copy2 that raised half way leaves at dst_f
PartialCopy(g) ==
    [present |-> TRUE, mtime |-> WrittenNow(g), data |-> "partial"]

\* should_skip(src_f) as the walk calls it (line 122), for each source file
\* and each way its I/O can go
SkipTable ==
    [f \in FileIds |->
        [kind \in FaultKinds \cup {"none"} |->
            ShouldSkip(SrcFilePath(f), kind # "vanished",
                       Files[f].sizeMB, kind = "size")]]

SkipsFile(f, flt) == SkipTable[f][FaultOn(f, flt)]

(***************************************************************************)
(* Delegated mode: the robocopy command of lines 99-105                    *)
(***************************************************************************)
ROBOCOPY_FLAGS == {"/E", "/XO", "/XN", "/XC", "/NFL", "/NDL", "/NJH", "/NJS", "/NP"}

\* /XF *.exe *.msi *.bat *.cmd *.dll
ROBOCOPY_XF ==
    { <<".","e","x","e">>, <<".","m","s","i">>, <<".","b","a","t">>,
      <<".","c","m","d">>, <<".","d","l","l">> }

\* /XD AppData "Program Files" Windows Temp Desktop
ROBOCOPY_XD ==
    { <<"A","p","p","D","a","t","a">>,
      <<"P","r","o","g","r","a","m"," ","F","i","l","e","s">>,
      <<"W","i","n","d","o","w","s">>, <<"T","e","m","p">>,
      <<"D","e","s","k","t","o","p">> }

ToolStates == {"ok", "missing", "spawnfail"}

\* robocopy_available() (lines 50-56): False when spawning robocopy raises
RobocopyAvailable(t) == t # "missing"

\* whether subprocess.run(cmd, ...) of line 107 raises
RobocopyRunRaises(t) == t = "spawnfail"

RECURSIVE PathComponents(_)
\* the names between the separators of a relative path
PathComponents(s) ==
    IF s = <<>> THEN {}
    ELSE IF \E i \in 1..Len(s) : s[i] = "\\"
    THEN LET i == CHOOSE j \in 1..Len(s) :
                     s[j] = "\\" /\ \A h \in 1..(j - 1) : s[h] # "\\"
         IN  {SubSeq(s, 1, i - 1)} \cup PathComponents(SubSeq(s, i + 1, Len(s)))
    ELSE {s}

\* robocopy's class of a source file against the destination file d
RoboClass(f, d) ==
    IF ~d.present THEN "lonely"
    ELSE IF Files[f].mtime > d.mtime THEN "newer"
    ELSE IF Files[f].mtime < d.mtime THEN "older"
    ELSE IF d.data = "source" THEN "same"
    ELSE "changed"

\* whether robocopy copies a file of that class under the flags given
RoboCopiesClass(class, flags) ==
    CASE class = "lonely"  -> TRUE
      [] class = "newer"   -> "/XN" \notin flags
      [] class = "older"   -> "/XO" \notin flags
      [] class = "changed" -> "/XC" \notin flags
      [] OTHER             -> "/IS" \in flags

\* /XF: the file name matches one of the excluded patterns
RoboExcludedFile(f) ==
    \E ext \in ROBOCOPY_XF : EndsWith(Lower(Files[f].name), ext)

\* /XD: a directory below the source root has an excluded name
RoboExcludedDir(d) ==
    \E c \in PathComponents(Dirs[d].rel) :
        \E x \in ROBOCOPY_XD : Lower(c) = Lower(x)

\* whether robocopy descends to directory d: the root always, below it with /E
RoboVisitsDir(d, flags) ==
    /\ ~RoboExcludedDir(d)
    /\ Dirs[d].rel = <<>> \/ "/E" \in flags \/ "/S" \in flags

\* the destination files after `robocopy src target <flags>` on folder k
RoboFiles(k, flags, tree, flt, g, dirs) ==
    [f \in FileIds |->
        IF /\ FolderOf(f) = k
           /\ RoboVisitsDir(Files[f].dir, flags)
           /\ ~MkdirRaises(Files[f].dir, flt, Files[f].dir \in dirs)
           /\ ~RoboExcludedFile(f)
           /\ FaultOn(f, flt) \notin {"vanished", "copy", "partial"}
           /\ RoboCopiesClass(RoboClass(f, tree[f]), flags)
        THEN Copy2(f, g)
        ELSE tree[f]]

\* the destination directories robocopy creates for folder k
RoboDirs(k, flags, flt, dirs) ==
    {d \in DirIds : Dirs[d].folder = k /\ RoboVisitsDir(d, flags)
                    /\ Dirs[d].rel # <<>> /\ "/E" \in flags
                    /\ ~MkdirRaises(d, flt, d \in dirs)}

(***************************************************************************)
(* main (lines 137-167) and copy_folder_incremental (lines 88-134)         *)
(***************************************************************************)
NoOutcome == [f \in FileIds |-> "none"]

NotRun == [k \in FolderIds |-> "none"]

\* the loop test of line 153 with <= for <
WaitLoopCond_Inclusive(t, d) == t <= d

\* the loop test of line 153: datetime.now() < deadline
WaitLoopCond(t, d) == t < d

\* main without the early return of lines 147-148
MainStart_NoEarlyReturn ==
    /\ pc = "start"
    /\ src_folders' = SelectSeq(<<1, 2>>, LAMBDA k : srcExists[k])
    /\ pc' = "wait"
    /\ deadline' = now + DRIVE_RETRY_MINUTES * 60
    /\ UNCHANGED <<now, dest_root, attempts, probed, exitCode, idx, walk>>
    /\ UNCHANGED <<skipVars, envVars, treeVars, runVars>>

\* lines 138-151: list the user folders that exist; return 0 when there is
\* none, else set the deadline and enter the wait loop
MainStart ==
    /\ pc = "start"
    /\ LET folders == SelectSeq(<<1, 2>>, LAMBDA k : srcExists[k])
       IN  /\ src_folders' = folders
           /\ IF folders = <<>>
              THEN /\ pc' = "done"
                   /\ exitCode' = 0
                   /\ UNCHANGED deadline
              ELSE /\ pc' = "wait"
                   /\ deadline' = now + DRIVE_RETRY_MINUTES * 60
                   /\ UNCHANGED exitCode
    /\ UNCHANGED <<now, dest_root, attempts, probed, idx, walk>>
    /\ UNCHANGED <<skipVars, envVars, treeVars, runVars>>

\* Seconds one os.path.exists probe may take: it answers at once, or waits
\* seven seconds for the network.
ProbeTimes == {0, 7}

\* lines 153-154: the loop test holds and find_destination is called
WaitAttempt ==
    /\ pc = "wait"
    /\ WaitLoopCond(now, deadline)
    /\ pc' = "probe"
    /\ attempts' = attempts + 1
    /\ probed' = <<>>
    /\ UNCHANGED <<now, deadline, dest_root, exitCode, src_folders, idx, walk>>
    /\ UNCHANGED <<skipVars, envVars, treeVars, runVars>>

\* lines 35-47 and 154-157: the next probe of the call in progress, on the
\* roots as they are when it is made.  A path found available ends the call
\* and the loop (line 156); after the last probe has failed the call returns
\* None and main sleeps for the poll interval (line 157).  The clock advances
\* by the time the probe takes and by the sleep.
Probe ==
    /\ pc = "probe"
    /\ LET seq == ProbeSequence(Username)
           i == Len(probed) + 1
           hit == IsDriveAvailable(seq[i].path, reach)
       IN  /\ probed' = Append(probed, hit)
           /\ IF hit
              THEN /\ dest_root' = seq[i].result
                   /\ pc' = "afterwait"
                   /\ now' = now + probeTime
              ELSE IF i < Len(seq)
              THEN /\ pc' = "probe"
                   /\ now' = now + probeTime
                   /\ UNCHANGED dest_root
              ELSE /\ dest_root' = None
                   /\ pc' = "wait"
                   /\ now' = now + probeTime + RETRY_INTERVAL_SECONDS
    /\ UNCHANGED <<deadline, attempts, exitCode, src_folders, idx, walk>>
    /\ UNCHANGED <<skipVars, envVars, treeVars, runVars>>

\* line 153: the loop test fails and the loop ends
WaitExpired ==
    /\ pc = "wait"
    /\ ~WaitLoopCond(now, deadline)
    /\ pc' = "afterwait"
    /\ UNCHANGED <<now, deadline, dest_root, attempts, probed, exitCode,
                   src_folders, idx, walk>>
    /\ UNCHANGED <<skipVars, envVars, treeVars, runVars>>

\* lines 159-162: return 1 without a destination, else create it; when
\* os.makedirs raises, the exception leaves main and the handler of lines
\* 174-175 exits with 99
AfterWait ==
    /\ pc = "afterwait"
    /\ IF dest_root = None
       THEN /\ pc' = "done"
            /\ exitCode' = 1
            /\ UNCHANGED <<idx, destMade>>
       ELSE IF MkdirRaises(0, fault, destMade)
       THEN /\ pc' = "done"
            /\ exitCode' = 99
            /\ UNCHANGED <<idx, destMade>>
       ELSE /\ pc' = "copy"
            /\ idx' = 1
            /\ destMade' = TRUE
            /\ UNCHANGED exitCode
    /\ UNCHANGED <<now, deadline, dest_root, attempts, probed,
                   src_folders, walk>>
    /\ UNCHANGED <<dst, dstDirs, ran, outcome, writes>>
    /\ UNCHANGED <<skipVars, envVars, runVars>>

\* the environment: the reachability of the roots changes while main waits,
\* between two calls of find_destination or between two probes of one call
EnvChange ==
    /\ pc \in {"wait", "probe"}
    /\ reach' \in [ProbePaths -> ProbeOutcomes] \ {reach}
    /\ UNCHANGED <<srcExists, tool, fault, grain, probeTime>>
    /\ UNCHANGED <<skipVars, mainVars, treeVars, runVars>>

\* lines 164-165 and 88-112: the call of copy_folder_incremental for the next
\* folder, up to the end of the delegated branch or the start of the walk.
\* When os.makedirs(target) of line 95 raises, the exception leaves
\* copy_folder_incremental and main, and the handler of lines 174-175 exits
\* with 99.
CopyFolder ==
    /\ pc = "copy"
    /\ idx <= Len(src_folders)
    /\ LET k == src_folders[idx] IN
       IF ~srcExists[k]
       THEN /\ ran' = [ran EXCEPT ![k] = "absent"]                \* 90-91
            /\ idx' = idx + 1
            /\ UNCHANGED <<pc, exitCode, walk, dst, dstDirs>>
       ELSE IF MkdirRaises(TargetDir(k), fault, TargetDir(k) \in dstDirs)
       THEN /\ ran' = [ran EXCEPT ![k] = "raised"]                \* 95 raises
            /\ pc' = "done"
            /\ exitCode' = 99                                     \* 174-175
            /\ UNCHANGED <<idx, walk, dst, dstDirs>>
       ELSE IF RobocopyAvailable(tool)                             \* 98
       THEN /\ idx' = idx + 1                                      \* 112
            /\ UNCHANGED <<pc, exitCode, walk>>
            /\ IF RobocopyRunRaises(tool)
               THEN /\ ran' = [ran EXCEPT ![k] = "swallowed"]      \* 110-111
                    /\ dstDirs' = dstDirs \cup {TargetDir(k)}      \* 95
                    /\ UNCHANGED dst
               ELSE /\ ran' = [ran EXCEPT ![k] = "robocopy"]       \* 99-109
                    /\ dst' = RoboFiles(k, ROBOCOPY_FLAGS, dst, fault, grain,
                                        dstDirs)
                    /\ dstDirs' = dstDirs \cup {TargetDir(k)}
                                    \cup RoboDirs(k, ROBOCOPY_FLAGS, fault, dstDirs)
       ELSE /\ ran' = [ran EXCEPT ![k] = "fallback"]               \* 115
            /\ dstDirs' = dstDirs \cup {TargetDir(k)}              \* 95
            /\ pc' = "walk"
            /\ walk' = WalkOrder(k)
            /\ UNCHANGED <<idx, exitCode, dst>>
    /\ UNCHANGED <<now, deadline, dest_root, attempts, probed, src_folders>>
    /\ UNCHANGED <<destMade, outcome, writes>>
    /\ UNCHANGED <<skipVars, envVars, runVars>>

\* lines 115-118: os.walk yields a directory; its mirror is created.  Line
\* 118 stands outside the try of lines 127-134: when os.makedirs raises, the
\* walk is abandoned, the exception leaves main and the handler of lines
\* 174-175 exits with 99.
VisitDir ==
    /\ pc = "walk"
    /\ walk # <<>>
    /\ Head(walk).kind = "dir"
    /\ LET d == Head(walk).id IN
       IF MkdirRaises(d, fault, d \in dstDirs)
       THEN /\ ran' = [ran EXCEPT ![Dirs[d].folder] = "raised"]
            /\ pc' = "done"
            /\ exitCode' = 99
            /\ walk' = <<>>
            /\ UNCHANGED dstDirs
       ELSE /\ dstDirs' = dstDirs \cup {d}
            /\ walk' = Tail(walk)
            /\ UNCHANGED <<pc, exitCode, ran>>
    /\ UNCHANGED <<now, deadline, dest_root, attempts, probed, src_folders, idx>>
    /\ UNCHANGED <<dst, destMade, outcome, writes>>
    /\ UNCHANGED <<skipVars, envVars, runVars>>

\* the walk abandoned when a file operation raises
AfterFileFault_Abort(w) == <<>>

\* lines 133-134: except Exception: pass -- the loop goes on with the rest
AfterFileFault(w) == Tail(w)

\* lines 120-134: one file of the directory being walked
VisitFile ==
    /\ pc = "walk"
    /\ walk # <<>>
    /\ Head(walk).kind = "file"
    /\ LET f == Head(walk).id
           kind == FaultOn(f, fault)
       IN  IF SkipsFile(f, fault)                                   \* 122-123
           THEN /\ outcome' = [outcome EXCEPT ![f] = "skipped"]
                /\ walk' = Tail(walk)
                /\ UNCHANGED <<dst, writes>>
           ELSE IF dst[f].present /\ kind = "vanished"              \* 130 raises
           THEN /\ outcome' = [outcome EXCEPT ![f] = "failed"]
                /\ walk' = AfterFileFault(walk)
                /\ UNCHANGED <<dst, writes>>
           ELSE IF ~dst[f].present
                   \/ SrcIsNewer(Files[f].mtime, dst[f].mtime)     \* 129-131
           THEN IF kind \in {"vanished", "copy"}                    \* 132 raises
                THEN /\ outcome' = [outcome EXCEPT ![f] = "failed"]
                     /\ walk' = AfterFileFault(walk)
                     /\ UNCHANGED <<dst, writes>>
                ELSE IF kind = "partial"              \* 132 raises half way
                THEN /\ outcome' = [outcome EXCEPT ![f] = "failed"]
                     /\ dst' = [dst EXCEPT ![f] = PartialCopy(grain)]
                     /\ walk' = AfterFileFault(walk)
                     /\ UNCHANGED writes
                ELSE /\ outcome' = [outcome EXCEPT ![f] = "copied"] \* 132
                     /\ dst' = [dst EXCEPT ![f] = Copy2(f, grain)]
                     /\ writes' = writes + 1
                     /\ walk' = Tail(walk)
           ELSE /\ outcome' = [outcome EXCEPT ![f] = "kept"]
                /\ walk' = Tail(walk)
                /\ UNCHANGED <<dst, writes>>
    /\ UNCHANGED <<pc, now, deadline, dest_root, attempts, probed, exitCode,
                   src_folders, idx>>
    /\ UNCHANGED <<dstDirs, destMade, ran>>
    /\ UNCHANGED <<skipVars, envVars, runVars>>

\* line 115: os.walk is exhausted; copy_folder_incremental returns
WalkDone ==
    /\ pc = "walk"
    /\ walk = <<>>
    /\ pc' = "copy"
    /\ idx' = idx + 1
    /\ UNCHANGED <<now, deadline, dest_root, attempts, probed, exitCode,
                   src_folders, walk>>
    /\ UNCHANGED <<skipVars, envVars, treeVars, runVars>>

\* lines 164-167: the folder loop is over; return 0
MainReturn ==
    /\ pc = "copy"
    /\ idx > Len(src_folders)
    /\ pc' = "done"
    /\ exitCode' = 0
    /\ UNCHANGED <<now, deadline, dest_root, attempts, probed,
                   src_folders, idx, walk>>
    /\ UNCHANGED <<skipVars, envVars, treeVars, runVars>>

(***************************************************************************)
(* Specifications                                                          *)
(***************************************************************************)
IdleSkipCall == [path |-> <<>>, isfile |-> FALSE, sizeMB |-> 0, sizeFails |-> FALSE]

SkipIdle ==
    /\ skipCall = IdleSkipCall
    /\ skipDone = TRUE
    /\ skipResult = FALSE

\* a file left at the destination by something other than this run: its
\* modification time is one the destination filesystem can store
StaleFiles(g) ==
    [present : {TRUE},
     mtime : {m \in 1..MaxMtime : StoredMtime(m, g) = m},
     data : {"stale"}]

\* the directories a destination tree holding these files must have
DirsHolding(tree) ==
    {d \in DirIds : \E f \in FileIds :
        tree[f].present /\ IsAncestorOrSelf(d, Files[f].dir)}

\* main starts on a destination that holds no backup yet
Init ==
    /\ SkipIdle
    /\ pc = "start"
    /\ now = 0
    /\ deadline = 0
    /\ dest_root = None
    /\ attempts = 0
    /\ probed = <<>>
    /\ exitCode = -1
    /\ src_folders = <<>>
    /\ idx = 1
    /\ walk = <<>>
    /\ reach \in [ProbePaths -> ProbeOutcomes]
    /\ srcExists \in [FolderIds -> BOOLEAN]
    /\ tool \in ToolStates
    /\ fault \in {NoFault} \cup MkdirFaults
    /\ grain \in Grains
    /\ probeTime \in ProbeTimes
    /\ dst = [f \in FileIds |-> Absent]
    /\ dstDirs = {}
    /\ destMade = FALSE
    /\ ran = NotRun
    /\ outcome = NoOutcome
    /\ writes = 0
    /\ call = 1
    /\ snap = dst
    /\ snapDirs = dstDirs

MainStep ==
    \/ MainStart
    \/ WaitAttempt
    \/ Probe
    \/ WaitExpired
    \/ AfterWait
    \/ CopyFolder
    \/ VisitDir
    \/ VisitFile
    \/ WalkDone
    \/ MainReturn

Next == MainStep \/ EnvChange

Spec == Init /\ [][Next]_vars

\* the starts of main in which no directory creation fails and the
\* destination stores every timestamp: what the wait loop does depends on
\* neither
InitWaiter ==
    /\ Init
    /\ fault = NoFault
    /\ grain = 1

\* main is a running process: it takes its next step whatever the
\* environment does
FairSpec == InitWaiter /\ [][Next]_vars /\ WF_vars(MainStep)

\* The copy engine on its own: main has resolved and created dest_root
\* (line 162) and is about to loop over both user folders; the destination
\* may hold files of earlier backups, one source file may be faulty or one
\* directory may refuse to be created, and a user folder may have gone since
\* main listed it.
InitCopy ==
    /\ SkipIdle
    /\ pc = "copy"
    /\ now = 0
    /\ deadline = DRIVE_RETRY_MINUTES * 60
    /\ reach = [p \in ProbePaths |-> "yes"]
    /\ dest_root = FindDestination(Username, reach)
    /\ attempts = 1
    /\ probed = <<TRUE>>
    /\ exitCode = -1
    /\ src_folders = <<1, 2>>
    /\ idx = 1
    /\ walk = <<>>
    /\ srcExists \in {[k \in FolderIds |-> TRUE], [k \in FolderIds |-> k # 1]}
    /\ tool \in ToolStates
    /\ fault \in Faults \ {[id |-> 0, kind |-> "mkdir"]}
    /\ grain \in Grains
    /\ probeTime = 0
    /\ dst \in [FileIds -> {Absent} \cup StaleFiles(grain)]
    /\ dstDirs = DirsHolding(dst)
    /\ destMade = TRUE
    /\ ran = NotRun
    /\ outcome = NoOutcome
    /\ writes = 0
    /\ call = 1
    /\ snap = dst
    /\ snapDirs = dstDirs

\* the copy engine is run once more over the same, unchanged source
SecondRun ==
    /\ pc = "done"
    /\ exitCode = 0
    /\ call = 1
    /\ call' = 2
    /\ pc' = "copy"
    /\ idx' = 1
    /\ exitCode' = -1
    /\ snap' = dst
    /\ snapDirs' = dstDirs
    /\ writes' = 0
    /\ outcome' = NoOutcome
    /\ ran' = NotRun
    /\ UNCHANGED <<now, deadline, dest_root, attempts, probed, src_folders, walk>>
    /\ UNCHANGED <<dst, dstDirs, destMade>>
    /\ UNCHANGED <<skipVars, envVars>>

NextCopy ==
    \/ CopyFolder
    \/ VisitDir
    \/ VisitFile
    \/ WalkDone
    \/ MainReturn
    \/ SecondRun

SpecCopy == InitCopy /\ [][NextCopy]_vars

\* should_skip on its own
InitSkip ==
    /\ skipCall \in SkipInputs
    /\ skipDone = FALSE
    /\ skipResult = FALSE
    /\ pc = "done"
    /\ now = 0
    /\ deadline = 0
    /\ dest_root = None
    /\ attempts = 0
    /\ probed = <<>>
    /\ exitCode = -1
    /\ src_folders = <<>>
    /\ idx = 1
    /\ walk = <<>>
    /\ reach = [p \in ProbePaths |-> "no"]
    /\ srcExists = [k \in FolderIds |-> FALSE]
    /\ tool = "missing"
    /\ fault = NoFault
    /\ grain = 1
    /\ probeTime = 0
    /\ dst = [f \in FileIds |-> Absent]
    /\ dstDirs = {}
    /\ destMade = FALSE
    /\ ran = NotRun
    /\ outcome = NoOutcome
    /\ writes = 0
    /\ call = 1
    /\ snap = dst
    /\ snapDirs = dstDirs

\* one call of should_skip on the chosen path
CallShouldSkip ==
    /\ ~skipDone
    /\ skipDone' = TRUE
    /\ skipResult' = ShouldSkip(skipCall.path, skipCall.isfile,
                                skipCall.sizeMB, skipCall.sizeFails)
    /\ UNCHANGED skipCall
    /\ UNCHANGED <<envVars, mainVars, treeVars, runVars>>

NextSkip == CallShouldSkip

SpecSkip == InitSkip /\ [][NextSkip]_vars

(***************************************************************************)
(* Properties                                                              *)
(***************************************************************************)
\* the file the source holds, as a complete copy leaves it at the
\* destination: the source's content, and the source's modification time
\* rounded down to what the destination can store
IsCopyOfSource(f, d) ==
    /\ d.present
    /\ d.data = "source"
    /\ d.mtime <= Files[f].mtime
    /\ Files[f].mtime < d.mtime + grain
    /\ d.mtime % grain = 0

\* visited by the fallback walk of the current run, not skipped by the skip
\* policy, and none of its file operations raised
WalkedCleanly(f) ==
    /\ ran[FolderOf(f)] = "fallback"
    /\ outcome[f] # "none"
    /\ ~SkipsFile(f, fault)
    /\ FaultOn(f, fault) = "none"

\* C1: newer-wins in fallback mode.  A source file the skip policy does not
\* skip (and whose own I/O does not fail) is copied when it has no
\* destination counterpart, overwrites the counterpart when its modification
\* time is strictly greater, and leaves the counterpart untouched (content
\* and mtime) when its modification time is less or equal.
C1_NewerWins ==
    \A f \in FileIds :
        WalkedCleanly(f) =>
            /\ ~snap[f].present => IsCopyOfSource(f, dst[f])
            /\ (snap[f].present /\ Files[f].mtime > snap[f].mtime)
                   => IsCopyOfSource(f, dst[f])
            /\ (snap[f].present /\ Files[f].mtime <= snap[f].mtime)
                   => dst[f] = snap[f]

\* a first run in which one file was overwritten (source newer), one was
\* left alone (same mtime, other content) and one was created
C1_Witness ==
    /\ call = 1
    /\ pc = "done"
    /\ \E f, g, h \in FileIds :
        /\ WalkedCleanly(f) /\ WalkedCleanly(g) /\ WalkedCleanly(h)
        /\ snap[f].present /\ snap[f].mtime < Files[f].mtime
        /\ IsCopyOfSource(f, dst[f])
        /\ snap[g].present /\ snap[g].mtime = Files[g].mtime
        /\ dst[g] = snap[g] /\ dst[g].data = "stale"
        /\ ~snap[h].present /\ IsCopyOfSource(h, dst[h])

\* C2: idempotence of the fallback engine.  In a second run over the
\* unchanged source, after a first run in which no file operation failed, no
\* copy is made, and the destination files and directories stay as the first
\* run left them.
C2_SecondRunWritesNothing ==
    (call = 2 /\ tool = "missing" /\ fault = NoFault) =>
        /\ writes = 0
        /\ dst = snap
        /\ dstDirs = snapDirs

\* the paths of the three candidates, written out
UncCandidate == UNC_ROOT \o <<"\\">> \o Username \o <<"\\">> \o BACKUP_FOLDER_NAME

MappedUserCandidate == MAPPED_ROOT \o Username \o <<"\\">> \o BACKUP_FOLDER_NAME

MappedRootCandidate == MAPPED_ROOT \o BACKUP_FOLDER_NAME

\* C3: resolution priority.  Every probe of a find_destination call tries
\* the candidates in the order UNC user, mapped user, mapped root, each only
\* after every candidate before it was found unreachable; the call returns
\* the candidate of the first path its probe finds reachable, and None when
\* the third probe fails too.  A probe that raises counts as unreachable.
C3_ResolutionPriority ==
    [][(pc = "probe" /\ probed' # probed) =>
        LET i == Len(probed) + 1
            path == <<UNC_ROOT \o <<"\\">> \o Username,
                      MAPPED_ROOT \o Username,
                      MAPPED_ROOT>>[i]
            candidate == <<UncCandidate, MappedUserCandidate,
                           MappedRootCandidate>>[i]
            reachable == reach[path] = "yes"
        IN  /\ probed' = Append(probed, reachable)
            /\ \A j \in 1..Len(probed) : ~probed[j]
            /\ reachable => (pc' = "afterwait" /\ dest_root' = candidate)
            /\ (~reachable /\ i < 3) => (pc' = "probe" /\ dest_root' = dest_root)
            /\ (~reachable /\ i = 3) => (pc' = "wait" /\ dest_root' = None)]_vars

\* the call has just returned: the UNC probe raised, both mapped paths are
\* reachable, and the mapped-user candidate was chosen at the second probe
C3_Witness ==
    /\ pc = "afterwait"
    /\ probed = <<FALSE, TRUE>>
    /\ reach[UNC_ROOT \o <<"\\">> \o Username] = "error"
    /\ reach[MAPPED_ROOT \o Username] = "yes"
    /\ reach[MAPPED_ROOT] = "yes"
    /\ dest_root = MappedUserCandidate

\* seconds since main set its deadline
Elapsed == now - (deadline - DRIVE_RETRY_MINUTES * 60)

\* the wait loop has ended without a destination
WaitGaveUp ==
    pc \in {"afterwait", "done"} /\ src_folders # <<>> /\ dest_root = None

\* C4 as claimed: with a source folder present and every resolution absent,
\* the wait loop ends after at least the timeout and less than the timeout
\* plus one poll interval, and main returns 1 having created and copied
\* nothing.
C4_EndsWithinOnePoll ==
    WaitGaveUp =>
        /\ Elapsed >= DRIVE_RETRY_MINUTES * 60
        /\ Elapsed < DRIVE_RETRY_MINUTES * 60 + RETRY_INTERVAL_SECONDS
        /\ ~destMade
        /\ dstDirs = snapDirs
        /\ dst = snap
        /\ writes = 0
        /\ pc = "done" => exitCode = 1

\* what holds of the wait loop at every moment
C4_WaitBounded ==
    /\ attempts * RETRY_INTERVAL_SECONDS
           <= DRIVE_RETRY_MINUTES * 60 + RETRY_INTERVAL_SECONDS - 1
    /\ WaitGaveUp =>
           /\ Elapsed >= DRIVE_RETRY_MINUTES * 60
           /\ Elapsed < DRIVE_RETRY_MINUTES * 60 + RETRY_INTERVAL_SECONDS
                         + 3 * probeTime
           /\ Elapsed >= attempts * (RETRY_INTERVAL_SECONDS + 3 * probeTime)
           /\ ~destMade
           /\ dstDirs = snapDirs
           /\ dst = snap
           /\ writes = 0
           /\ pc = "done" => exitCode = 1

\* C4: waiter termination, amended.  With a source folder present and every
\* resolution absent, the wait loop ends after at least the timeout and less
\* than the timeout plus one poll interval plus the time one resolver call
\* (three failing probes) takes, the number of attempts is bounded, and main returns 1 having
\* created and copied nothing; main always comes to an end.
C4_WaiterTerminates == []C4_WaitBounded /\ <>(pc = "done")

\* main has returned 1 after twelve failed attempts of 21 + 60 seconds each,
\* more than a poll interval past the timeout
C4_Witness ==
    /\ pc = "done"
    /\ exitCode = 1
    /\ src_folders # <<>>
    /\ attempts = 12
    /\ Elapsed >= DRIVE_RETRY_MINUTES * 60 + RETRY_INTERVAL_SECONDS

\* C5: missing source folders.  When no user folder exists, main returns 0
\* at once: find_destination is never called, nothing sleeps, nothing is
\* created or copied, whatever is reachable.
C5_NoSourceNoWait ==
    (pc # "start" /\ \A k \in FolderIds : ~srcExists[k]) =>
        /\ pc = "done"
        /\ exitCode = 0
        /\ attempts = 0
        /\ now = 0
        /\ dest_root = None
        /\ ~destMade
        /\ dstDirs = {}
        /\ \A f \in FileIds : ~dst[f].present
        /\ writes = 0

\* main has returned although every destination root was reachable
C5_Witness ==
    /\ pc = "done"
    /\ \A k \in FolderIds : ~srcExists[k]
    /\ \A p \in ProbePaths : reach[p] = "yes"
    /\ exitCode = 0

\* the extension of the path is .pst, in any casing
HasPstExtension(path) == EndsWith(Lower(path), PST_EXTENSION)

\* C6: oversize skip.  For every regular file larger than MAX_FILE_SIZE_MB
\* megabytes whose extension is not .pst, should_skip returns True.
C6_OversizeSkipped ==
    (/\ skipDone
     /\ skipCall.isfile
     /\ ~skipCall.sizeFails
     /\ skipCall.sizeMB > MAX_FILE_SIZE_MB
     /\ ~HasPstExtension(skipCall.path)) => skipResult = TRUE

\* the path lies under a configured Outlook folder (Windows paths compare
\* without regard to case)
UnderOutlookFolder(path) ==
    \E i \in 1..Len(OUTLOOK_FOLDERS) :
        Contains(Lower(path), <<"\\">> \o Lower(OUTLOOK_FOLDERS[i]) \o <<"\\">>)

\* C7 as claimed: every .pst file (any casing of the extension) under a
\* configured Outlook folder, whatever its full path and size, is not skipped
\* (its size being readable).
C7_EveryOutlookPstKept ==
    (/\ skipDone
     /\ skipCall.isfile
     /\ ~skipCall.sizeFails
     /\ HasPstExtension(skipCall.path)
     /\ UnderOutlookFolder(skipCall.path)) => skipResult = FALSE

\* C7: Outlook archive exception, amended.  A file under a configured
\* Outlook folder whose path ends in ".pst" exactly (lower case), whose
\* lower-cased full path contains none of the skip substrings and whose size
\* can be read, is not skipped, whatever its size.
C7_OutlookPstKept ==
    (/\ skipDone
     /\ skipCall.isfile
     /\ ~skipCall.sizeFails
     /\ EndsWith(skipCall.path, PST_EXTENSION)
     /\ UnderOutlookFolder(skipCall.path)
     /\ \A i \in 1..Len(SKIP_SUBSTRINGS) :
            ~Contains(Lower(skipCall.path), SKIP_SUBSTRINGS[i]))
        => skipResult = FALSE

\* a .pst file under Documents\Outlook, larger than every limit, kept
C7_Witness ==
    /\ skipDone
    /\ skipCall.isfile
    /\ ~skipCall.sizeFails
    /\ skipCall.path = PathJoin(PathJoin(UserProfile, OUTLOOK_FOLDERS[1]),
                                <<"m","a","i","l">> \o PST_EXTENSION)
    /\ skipCall.sizeMB > SizeDivisorMB * MAX_FILE_SIZE_MB
    /\ skipResult = FALSE

\* no /XF pattern matches the file and no /XD name matches a directory on
\* its path, the user folder itself included
NotExcludedFromRobocopy(f) ==
    /\ ~RoboExcludedFile(f)
    /\ ~RoboExcludedDir(Files[f].dir)
    /\ \A x \in ROBOCOPY_XD : Lower(USER_FOLDERS[FolderOf(f)]) # Lower(x)

\* C8: delegated mode copies new-or-newer files.  After robocopy has run on
\* a folder, every non-excluded file that was absent at the destination, or
\* strictly newer than its destination counterpart, has been copied.
C8_DelegatedCopiesNewer ==
    \A f \in FileIds :
        (/\ ran[FolderOf(f)] = "robocopy"
         /\ NotExcludedFromRobocopy(f)
         /\ fault = NoFault
         /\ ~snap[f].present \/ Files[f].mtime > snap[f].mtime)
            => IsCopyOfSource(f, dst[f])

\* C9: external-tool faults trigger fallback.  Whenever invoking robocopy
\* fails, at the availability probe or at the copy invocation,
\* copy_folder_incremental runs the fallback walk for the folder: the folder
\* is walked and its missing files are copied.
C9_ToolFaultFallsBack ==
    \A k \in FolderIds :
        (tool # "ok" /\ fault.kind # "mkdir" /\ ran[k] \notin {"none", "absent"}) =>
            /\ ran[k] = "fallback"
            /\ pc = "done" =>
                   \A f \in FileIds :
                       (/\ FolderOf(f) = k
                        /\ ~SkipsFile(f, fault)
                        /\ FaultOn(f, fault) = "none"
                        /\ ~snap[f].present) => dst[f].present

\* C10: a failing file never aborts the fallback walk.  When the I/O of one
\* file fails, no copy of that file is completed (its destination is as it
\* was, or holds what the interrupted copy left), every other file of every
\* walked folder still gets its normal skip/copy decision, every folder is
\* processed and main returns 0.
C10_FaultDoesNotAbortWalk ==
    (pc = "done" /\ tool = "missing" /\ fault \in FileFaults) =>
        /\ exitCode = 0
        /\ outcome[fault.id] # "copied"
        /\ dst[fault.id] = snap[fault.id] \/ dst[fault.id].data = "partial"
        /\ \A k \in FolderIds : ran[k] = IF srcExists[k] THEN "fallback" ELSE "absent"
        /\ \A f \in FileIds :
               (f # fault.id /\ srcExists[FolderOf(f)]) =>
                   /\ outcome[f] # "none"
                   /\ IF SkipsFile(f, NoFault) THEN dst[f] = snap[f]
                      ELSE IF ~snap[f].present \/ Files[f].mtime > snap[f].mtime
                      THEN IsCopyOfSource(f, dst[f])
                      ELSE dst[f] = snap[f]

\* the copy of notes.txt raised half way; plan.txt, next in the same
\* directory, and mail.pst, in the directory walked after it, were still
\* copied
C10_Witness ==
    /\ pc = "done"
    /\ call = 1
    /\ tool = "missing"
    /\ exitCode = 0
    /\ fault = [id |-> 2, kind |-> "partial"]
    /\ outcome[2] = "failed" /\ dst[2].data = "partial"
    /\ outcome[3] = "copied" /\ IsCopyOfSource(3, dst[3])
    /\ outcome[4] = "copied" /\ IsCopyOfSource(4, dst[4])

====
